---- MODULE Spec2Model ----
(***************************************************************************)
(* A model of scripts/update-budgets.py: the numeric codec, the failure    *)
(* parser, the replacement engine and the convergence controller (main).   *)
(*                                                                         *)
(* Representation.                                                         *)
(*  - A Python int is its decimal digit sequence, most significant digit   *)
(*    first, without leading zeros (<<0>> is zero).  Python ints are       *)
(*    unbounded and the codec compares against 2^31 - 1, which is TLC's    *)
(*    largest integer, so the digits are kept instead of a machine number. *)
(*  - A text (file content) is a sequence of characters.  The words the    *)
(*    regular expressions of the script look for ("ExUnits(", "memory",    *)
(*    "steps", "size is ") are single characters of this alphabet; "x" is  *)
(*    any other text.                                                      *)
(*  - The runner's output is a sequence of lines, each a record naming the *)
(*    phrase it carries (see the parser).                                  *)
(***************************************************************************)
EXTENDS Integers, Sequences, FiniteSets, TLC

VARIABLES
    pc,                   \* position of main (or of the driver of a unit specification)
    dry_run,              \* main: "--dry" in sys.argv
    output,               \* main: output of the latest runner call
    rc,                   \* main: exit code of the latest runner call
    exunits_map,          \* main: mapping parsed in this iteration
    size_mismatches,      \* main: size mismatches parsed in this iteration
    new_classes,          \* main: identifiers parsed from the latest output
    failing_classes,      \* main: identifiers known to fail
    all_exunits,          \* main: accumulated mapping
    all_sizes,            \* main: accumulated size mismatches
    total_updated_files,  \* main: set of modified paths
    updated,              \* list returned by the latest replacement round
    iteration,            \* main: loop variable of the running for loop
    files,                \* the file system: path -> content
    ret,                  \* main's return value, -1 while running
    env,                  \* the test runner: how it answers (in a unit specification:
                          \* the inputs drawn)
    probe,                \* unit specifications: the value the function under test returned
    calls,                \* history: number of run_sbtn calls and the latest command
    wrote,                \* history: some file was written
    written,              \* history: the files the latest replacement call(s) wrote
    dirty,                \* history: some file was written since the latest run_sbtn call
    stalled,              \* history: the primary loop stopped on "no mismatches" with failing classes known
    rounds,               \* history: replacement rounds of the primary loop and of the retry cycle
    uniform,              \* history: whether every run_sbtn call so far failed with one same output
    before                \* history: the file system main started from (in a unit
                          \* specification: before the latest application)

vars == <<pc, dry_run, output, rc, exunits_map, size_mismatches, new_classes,
          failing_classes, all_exunits, all_sizes, total_updated_files, updated,
          iteration, files, ret, env, probe, calls, wrote, written, dirty, stalled, rounds,
          uniform, before>>

-----------------------------------------------------------------------------
(* Python ints as digit sequences                                          *)

DigitChars == <<"0", "1", "2", "3", "4", "5", "6", "7", "8", "9">>

IsDigit(c) == \E i \in 1..10 : DigitChars[i] = c

DigitVal(c) == CHOOSE d \in 0..9 : DigitChars[d + 1] = c

\* str(n) of a non-negative int
str(n) == [i \in 1..Len(n) |-> DigitChars[n[i] + 1]]

RECURSIVE StripLeadingZeros(_)
StripLeadingZeros(d) ==
    IF Len(d) > 1 /\ d[1] = 0 THEN StripLeadingZeros(Tail(d)) ELSE d

\* int(s) of a non-empty string of decimal digits
int(s) == StripLeadingZeros([i \in 1..Len(s) |-> DigitVal(s[i])])

RECURSIVE LexGt(_, _)
LexGt(a, b) ==
    IF a = <<>> THEN FALSE
    ELSE IF a[1] # b[1] THEN a[1] > b[1]
    ELSE LexGt(Tail(a), Tail(b))

\* a > b on ints
NumGt(a, b) == Len(a) > Len(b) \/ (Len(a) = Len(b) /\ LexGt(a, b))

\* the value of a small int (a line number) as a number of the model
RECURSIVE ToNat(_)
ToNat(n) == IF n = <<>> THEN 0 ELSE 10 * ToNat(SubSeq(n, 1, Len(n) - 1)) + n[Len(n)]

INT_MAX == <<2, 1, 4, 7, 4, 8, 3, 6, 4, 7>>

MAX_ITERATIONS == 25

-----------------------------------------------------------------------------
(* Formatting                                                              *)

\* a fmt_num that gives Int.MaxValue itself the suffix
fmt_num_SuffixAtMax(n) ==
    LET s == str(n)
        formatted == IF Len(s) >= 7
                     THEN SubSeq(s, 1, Len(s) - 6) \o <<"_">> \o SubSeq(s, Len(s) - 5, Len(s))
                     ELSE s
    IN  IF ~NumGt(INT_MAX, n) THEN formatted \o <<"L">> ELSE formatted

fmt_num(n) ==
    LET s == str(n)
        formatted == IF Len(s) >= 7
                     THEN SubSeq(s, 1, Len(s) - 6) \o <<"_">> \o SubSeq(s, Len(s) - 5, Len(s))
                     ELSE s
    IN  IF NumGt(n, INT_MAX) THEN formatted \o <<"L">> ELSE formatted

fmt_exunits(mem, steps) ==
    <<"ExUnits(", "memory", " ", "=", " ">> \o fmt_num(mem)
        \o <<",", " ", "steps", " ", "=", " ">> \o fmt_num(steps) \o <<")">>

RECURSIVE rstrip(_, _)
rstrip(s, ch) ==
    IF s # <<>> /\ s[Len(s)] = ch THEN rstrip(SubSeq(s, 1, Len(s) - 1), ch) ELSE s

\* a strip_num that reads the digits after the last grouping mark only
strip_num_LastGroup(s) ==
    int(rstrip(IF Len(s) >= 7 /\ s[Len(rstrip(s, "L")) - 6] = "_"
               THEN SubSeq(s, Len(rstrip(s, "L")) - 5, Len(s)) ELSE s, "L"))

strip_num(s) == int(rstrip(SelectSeq(s, LAMBDA c : c # "_"), "L"))

-----------------------------------------------------------------------------
(* Texts                                                                   *)

\* the character at position p, or "" past either end
At(c, p) == IF p >= 1 /\ p <= Len(c) THEN c[p] ELSE ""

\* \s of the regular expressions
IsWs(ch) == ch \in {" ", "\n"}

RECURSIVE SkipWs(_, _)
SkipWs(c, p) == IF IsWs(At(c, p)) THEN SkipWs(c, p + 1) ELSE p

RECURSIVE Flatten(_)
Flatten(ss) == IF ss = <<>> THEN <<>> ELSE Head(ss) \o Flatten(Tail(ss))

\* whether pat occurs in c at position p
OccursAt(c, pat, p) ==
    /\ p + Len(pat) - 1 <= Len(c)
    /\ \A k \in 1..Len(pat) : c[p + k - 1] = pat[k]

\* str.replace(old, new), and re.sub of a pattern without special characters:
\* the non-overlapping occurrences of old (non-empty), leftmost first
RECURSIVE ReplaceFrom(_, _, _, _)
ReplaceFrom(c, old, new, p) ==
    IF p > Len(c) THEN <<>>
    ELSE IF OccursAt(c, old, p) THEN new \o ReplaceFrom(c, old, new, p + Len(old))
    ELSE <<c[p]>> \o ReplaceFrom(c, old, new, p + 1)

Replace(c, old, new) == ReplaceFrom(c, old, new, 1)

\* str.split("\n"): the lines of c, one more than the newlines in c
RECURSIVE SplitFrom(_, _, _)
SplitFrom(c, p, cur) ==
    IF p > Len(c) THEN <<cur>>
    ELSE IF c[p] = "\n" THEN <<cur>> \o SplitFrom(c, p + 1, <<>>)
    ELSE SplitFrom(c, p + 1, Append(cur, c[p]))

split(c) == SplitFrom(c, 1, <<>>)

\* "\n".join(lines)
RECURSIVE join(_)
join(lines) ==
    IF Len(lines) = 0 THEN <<>>
    ELSE IF Len(lines) = 1 THEN lines[1]
    ELSE lines[1] \o <<"\n">> \o join(Tail(lines))

\* list(dict.fromkeys(s)): first occurrences, in order
RECURSIVE Dedupe(_)
Dedupe(s) ==
    IF s = <<>> THEN <<>>
    ELSE LET rest == Dedupe(SubSeq(s, 1, Len(s) - 1))
             x == s[Len(s)]
         IN  IF \E i \in 1..Len(rest) : rest[i] = x THEN rest ELSE Append(rest, x)

Range(s) == {s[i] : i \in 1..Len(s)}

\* dict.update: the entries of b over those of a
\* an assignment of the new mapping in place of the update
DictUpdate_Assign(a, b) == b

DictUpdate(a, b) ==
    [k \in DOMAIN a \cup DOMAIN b |-> IF k \in DOMAIN b THEN b[k] ELSE a[k]]

EmptyMap == [k \in {} |-> <<>>]

-----------------------------------------------------------------------------
(* Statistics.  What report_statistics prints, as a record.  The budgets   *)
(* it is given here are small, so a delta is a number of the model and a   *)
(* percentage delta / old * 100 is the fraction <<delta * 100, old>>.      *)

\* (delta / old * 100) if old else 0
Pct(delta, old) == IF old # 0 THEN <<delta * 100, old>> ELSE <<0, 1>>

mem_delta(map, k) == ToNat(map[k][1]) - ToNat(k[1])
steps_delta(map, k) == ToNat(map[k][2]) - ToNat(k[2])

\* an entry counted as an improvement where < stands for <=
Decreases_Strict(map, k) == mem_delta(map, k) < 0 /\ steps_delta(map, k) < 0

\* line 151: the entry of key k is counted in decreases
Decreases(map, k) == mem_delta(map, k) <= 0 /\ steps_delta(map, k) <= 0

\* line 181: the entry of key k is itemized under "Regressions:"
Itemized(map, k) ==
    ToNat(map[k][1]) > ToNat(k[1]) \/ ToNat(map[k][2]) > ToNat(k[2])

\* lines 177-190, given the count of increases
Regressions(map, increases) ==
    IF increases # 0 THEN {k \in DOMAIN map : Itemized(map, k)} ELSE {}

\* lines 156-175 and the section of regressions
Printed(map, sizes, decreases, increases) ==
    [none |-> FALSE,
     total |-> Cardinality(DOMAIN map),
     decreases |-> decreases,
     increases |-> increases,
     mem_pcts |-> [k \in DOMAIN map |-> Pct(mem_delta(map, k), ToNat(k[1]))],
     steps_pcts |-> [k \in DOMAIN map |-> Pct(steps_delta(map, k), ToNat(k[2]))],
     sizes |-> [i \in 1..Len(sizes) |->
                  [fname |-> sizes[i][3], line |-> sizes[i][4],
                   old_sz |-> sizes[i][1], new_sz |-> sizes[i][2],
                   pct |-> Pct(ToNat(sizes[i][2]) - ToNat(sizes[i][1]), ToNat(sizes[i][1]))]],
     regressions |-> Regressions(map, increases)]

\* "No budget changes detected."
NothingPrinted ==
    [none |-> TRUE, total |-> 0, decreases |-> 0, increases |-> 0, mem_pcts |-> EmptyMap,
     steps_pcts |-> EmptyMap, sizes |-> <<>>, regressions |-> {}]

report_statistics(map, sizes) ==
    IF DOMAIN map = {} /\ sizes = <<>> THEN NothingPrinted
    ELSE Printed(map, sizes,
                 Cardinality({k \in DOMAIN map : Decreases(map, k)}),
                 Cardinality({k \in DOMAIN map : ~Decreases(map, k)}))

-----------------------------------------------------------------------------
(* File updates                                                            *)

\* find_test_files(): the *.scala files under TEST_DIRS, as paths relative
\* to PROJECT_ROOT (a path is the sequence of its components)
find_test_files ==
    << <<"scalus-core", "BudgetTest.scala">>,
       <<"scalus-examples", "OtherTest.scala">> >>

\* Path.name
name(fpath) == fpath[Len(fpath)]

\* the end (first position after it) of the longest run of [0-9_] from p
RECURSIVE NumRunEnd(_, _)
NumRunEnd(c, p) ==
    IF IsDigit(At(c, p)) \/ At(c, p) = "_" THEN NumRunEnd(c, p + 1) ELSE p

\* ([0-9_]+L?) at p
MatchNum(c, p) ==
    LET e == NumRunEnd(c, p)
        e2 == IF At(c, e) = "L" THEN e + 1 ELSE e
    IN  [ok |-> e > p, end |-> e2, text |-> SubSeq(c, p, e2 - 1)]

\* (?:<field>\s*=\s*)? at p: the position after the group, p when it is absent
SkipField(c, p, field) ==
    LET q == SkipWs(c, p + 1)
    IN  IF At(c, p) = field /\ At(c, q) = "=" THEN SkipWs(c, q + 1) ELSE p

\* EXUNITS_RE matched at position i of c: the match, its end and its two groups
EXUNITS_RE(c, i) ==
    LET n1 == MatchNum(c, SkipField(c, SkipWs(c, i + 1), "memory"))
        p2 == SkipWs(c, n1.end)
        n2 == MatchNum(c, SkipField(c, SkipWs(c, p2 + 1), "steps"))
        p4 == SkipWs(c, n2.end)
        ok == /\ At(c, i) = "ExUnits("
              /\ n1.ok
              /\ At(c, p2) = ","
              /\ n2.ok
              /\ At(c, p4) = ")"
    IN  IF ok
        THEN [ok |-> TRUE, end |-> p4 + 1, g0 |-> SubSeq(c, i, p4), g1 |-> n1.text, g2 |-> n2.text]
        ELSE [ok |-> FALSE, end |-> i, g0 |-> <<>>, g1 |-> <<>>, g2 |-> <<>>]

\* a replacer that rewrites every literal in the canonical form, key or not
replacer_Normalising(map, m) ==
    LET mem_int == strip_num(m.g1)
        steps_int == strip_num(m.g2)
    IN  IF <<mem_int, steps_int>> \in DOMAIN map
        THEN fmt_exunits(map[<<mem_int, steps_int>>][1], map[<<mem_int, steps_int>>][2])
        ELSE fmt_exunits(mem_int, steps_int)

\* a replacer that looks the new budget up again
replacer_Cascading(map, m) ==
    LET mem_int == strip_num(m.g1)
        steps_int == strip_num(m.g2)
        new == IF <<mem_int, steps_int>> \in DOMAIN map THEN map[<<mem_int, steps_int>>]
               ELSE <<mem_int, steps_int>>
    IN  IF <<mem_int, steps_int>> \notin DOMAIN map THEN m.g0
        ELSE IF new \in DOMAIN map THEN fmt_exunits(map[new][1], map[new][2])
        ELSE fmt_exunits(new[1], new[2])

\* replace_exunits.replacer
replacer(map, m) ==
    LET mem_int == strip_num(m.g1)
        steps_int == strip_num(m.g2)
    IN  IF <<mem_int, steps_int>> \in DOMAIN map
        THEN fmt_exunits(map[<<mem_int, steps_int>>][1], map[<<mem_int, steps_int>>][2])
        ELSE m.g0

\* EXUNITS_RE.sub(replacer, content), from position p
RECURSIVE EXUNITS_RE_sub(_, _, _)
EXUNITS_RE_sub(map, c, p) ==
    IF p > Len(c) THEN <<>>
    ELSE LET m == EXUNITS_RE(c, p)
         IN  IF m.ok THEN replacer(map, m) \o EXUNITS_RE_sub(map, c, m.end)
             ELSE <<c[p]>> \o EXUNITS_RE_sub(map, c, p + 1)

\* an engine that writes and lists every file it read
WriteChanged_Always(fs, new) ==
    [files |-> new, updated |-> find_test_files, written |-> DOMAIN fs]

\* lines 229-231 and 267-269: the files whose new content differs are
\* written and listed; the file system after it and the list
WriteChanged(fs, new) ==
    [files |-> [f \in DOMAIN fs |-> IF new[f] # fs[f] THEN new[f] ELSE fs[f]],
     updated |-> SelectSeq(find_test_files, LAMBDA f : new[f] # fs[f]),
     written |-> {f \in DOMAIN fs : new[f] # fs[f]}]

\* a replace_exunits that writes and lists every file, changed or not
replace_exunits_AlwaysReports(map, fs) ==
    IF DOMAIN map = {} THEN [files |-> fs, updated |-> <<>>, written |-> {}]
    ELSE [files |-> [f \in DOMAIN fs |-> EXUNITS_RE_sub(map, fs[f], 1)],
          updated |-> find_test_files, written |-> DOMAIN fs]

\* replace_exunits on the file system fs: the file system after it and the
\* list it returns
replace_exunits(map, fs) ==
    IF DOMAIN map = {} THEN [files |-> fs, updated |-> <<>>, written |-> {}]
    ELSE WriteChanged(fs, [f \in DOMAIN fs |-> EXUNITS_RE_sub(map, fs[f], 1)])

RECURSIVE SizeLines(_, _, _, _)

\* a first loop that does not look at the file name
SizeLines_AnyFile(sizes, k, fname, content) ==
    IF k > Len(sizes) THEN content
    ELSE LET lines == split(content)
             idx == sizes[k][4] - 1
         IN  IF 0 <= idx /\ idx < Len(lines)
             THEN SizeLines(sizes, k + 1, fname,
                            join([lines EXCEPT ![idx + 1] =
                                    Replace(lines[idx + 1], str(sizes[k][1]), str(sizes[k][2]))]))
             ELSE SizeLines(sizes, k + 1, fname, content)

\* replace_sizes, first loop over the mismatches (from the k-th), for one file
SizeLines(sizes, k, fname, content) ==
    IF k > Len(sizes) THEN content
    ELSE LET old_sz == sizes[k][1]
             new_sz == sizes[k][2]
             lines == split(content)
             idx == sizes[k][4] - 1
             new_line == Replace(lines[idx + 1], str(old_sz), str(new_sz))
         IN  IF fname = sizes[k][3] /\ 0 <= idx /\ idx < Len(lines)
                 /\ new_line # lines[idx + 1]
             THEN SizeLines(sizes, k + 1, fname,
                            join([lines EXCEPT ![idx + 1] = new_line]))
             ELSE SizeLines(sizes, k + 1, fname, content)

\* replace_sizes, second loop ("size is <old>"), for one file
RECURSIVE SizeNames(_, _, _, _)
SizeNames(sizes, k, fname, content) ==
    IF k > Len(sizes) THEN content
    ELSE SizeNames(sizes, k + 1, fname,
                   IF fname = sizes[k][3]
                   THEN Replace(content, <<"size is ">> \o str(sizes[k][1]),
                                         <<"size is ">> \o str(sizes[k][2]))
                   ELSE content)

\* list(dict.fromkeys(updated)) of line 271
DedupeUpdated(r) ==
    [files |-> r.files, updated |-> Dedupe(r.updated), written |-> r.written]

\* replace_sizes on the file system fs
replace_sizes(sizes, fs) ==
    IF sizes = <<>> THEN [files |-> fs, updated |-> <<>>, written |-> {}]
    ELSE DedupeUpdated(WriteChanged(fs,
            [f \in DOMAIN fs |->
                SizeNames(sizes, 1, name(f), SizeLines(sizes, 1, name(f), fs[f]))]))

\* the number of files written between two file systems
Written(fs, fs2) == Cardinality({f \in DOMAIN fs : fs2[f] # fs[f]})

-----------------------------------------------------------------------------
(* Parsing.  A line of the runner's output is a record:                    *)
(*   k = "expected":  expected: ExUnits(p[1],p[2]),                        *)
(*   k = "got":       but got: ExUnits(p[1],p[2]);                         *)
(*   k = "equal":     ExUnits(p[1],p[2]) did not equal ExUnits(q[1],q[2])  *)
(*   k = "size":      p[1] did not equal p[2] (file:line)                  *)
(*   k = "failed":    [error] Failed tests:                                *)
(*   k = "class":     [error] <tab> cls, cls shaped like a class name      *)
(*   k = "text":      anything else                                        *)
(* The numbers are texts of digits.  sp says that a blank follows the      *)
(* comma inside ExUnits(...); ansi says that terminal escape sequences     *)
(* break the phrase up.                                                    *)

NoPair == << <<>>, <<>> >>

Line(k, p, q, file, line, cls) ==
    [k |-> k, p |-> p, q |-> q, file |-> file, line |-> line, cls |-> cls,
     sp |-> FALSE, ansi |-> FALSE]

\* ANSI_RE.sub("", text)
strip_ansi(text) == [i \in 1..Len(text) |-> [text[i] EXCEPT !.ansi = FALSE]]

\* map(int, m.groups()) of one ExUnits(...) phrase
Ints(p) == <<int(p[1]), int(p[2])>>

\* pattern 1 matches a line as its "expected: ExUnits(a,b)," part
IsExpected(l) == l.k = "expected" /\ ~l.sp /\ ~l.ansi

\* pattern 1 matches a line as its "but got: ExUnits(c,d);" part
IsGot(l) == l.k = "got" /\ ~l.sp /\ ~l.ansi

\* the first position >= i of text that pattern 1 matches as "expected", 0 if none
RECURSIVE FindExpected(_, _)
FindExpected(text, i) ==
    IF i > Len(text) THEN 0
    ELSE IF IsExpected(text[i]) THEN i
    ELSE FindExpected(text, i + 1)

\* the first position >= i of text that pattern 1 matches as "but got", 0 if none
RECURSIVE FindGot(_, _)
FindGot(text, i) ==
    IF i > Len(text) THEN 0
    ELSE IF IsGot(text[i]) THEN i
    ELSE FindGot(text, i + 1)

\* re.finditer of pattern 1 from line i: the matches (expected, got), in order
RECURSIVE Pattern1(_, _)
Pattern1(text, i) ==
    LET e == FindExpected(text, i)
        g == IF e = 0 THEN 0 ELSE FindGot(text, e + 1)
    IN  IF g = 0 THEN <<>>
        ELSE << <<Ints(text[e].p), Ints(text[g].p)>> >> \o Pattern1(text, g + 1)

\* re.finditer of pattern 2: the matches (actual, expected), in order
Pattern2(text) ==
    LET hits == SelectSeq(text, LAMBDA l : l.k = "equal" /\ ~l.ansi)
    IN  [i \in 1..Len(hits) |-> <<Ints(hits[i].p), Ints(hits[i].q)>>]

\* re.finditer of pattern 3: the matches (actual, expected, filename, line), in order
Pattern3(text) ==
    LET hits == SelectSeq(text, LAMBDA l : l.k = "size" /\ ~l.ansi)
    IN  [i \in 1..Len(hits) |->
            <<int(hits[i].p[1]), int(hits[i].p[2]), hits[i].file, hits[i].line>>]

\* exunits_map[key] = value for the entries of kv = <<key, value>>, ..., in order
RECURSIVE Store(_, _)
Store(map, kv) ==
    IF kv = <<>> THEN map
    ELSE Store([k \in DOMAIN map \cup {kv[1][1]} |->
                    IF k = kv[1][1] THEN kv[1][2] ELSE map[k]], Tail(kv))

\* a parser that reads form 2 in the operand order of form 1
ExunitsOf_SameOrder(text) ==
    Store(Store(EmptyMap, Pattern1(text, 1)), Pattern2(text))

\* the two loops that fill exunits_map
ExunitsOf(text) ==
    LET m1 == Pattern1(text, 1)
        m2 == Pattern2(text)
    IN  Store(Store(EmptyMap, m1), [i \in 1..Len(m2) |-> <<m2[i][2], m2[i][1]>>])

RECURSIVE SizesOf(_, _)

\* a parser that looks up (expected, actual) only, not the reverse pair
SizesOf_ForwardOnly(m3, map) ==
    IF m3 = <<>> THEN <<>>
    ELSE IF m3[1][1] # m3[1][2] /\ <<m3[1][2], m3[1][1]>> \notin DOMAIN map
         THEN << <<m3[1][2], m3[1][1], m3[1][3], ToNat(int(m3[1][4]))>> >>
                  \o SizesOf(Tail(m3), map)
         ELSE SizesOf(Tail(m3), map)

\* the loop that fills size_mismatches
SizesOf(m3, map) ==
    IF m3 = <<>> THEN <<>>
    ELSE LET actual_int == m3[1][1]
             expected_int == m3[1][2]
             key_fwd == <<expected_int, actual_int>>
             key_rev == <<actual_int, expected_int>>
             rest == SizesOf(Tail(m3), map)
         IN  IF actual_int = expected_int THEN rest
             ELSE IF key_fwd \notin DOMAIN map /\ key_rev \notin DOMAIN map
             THEN << <<expected_int, actual_int, m3[1][3], ToNat(int(m3[1][4]))>> >> \o rest
             ELSE rest

parse_failures(out) ==
    LET text == strip_ansi(out)
        map == ExunitsOf(text)
    IN  [exunits_map |-> map, size_mismatches |-> SizesOf(Pattern3(text), map)]

\* parse_failing_classes: the loop over the lines, from line i
RECURSIVE ClassesFrom(_, _, _)
ClassesFrom(text, i, in_block) ==
    IF i > Len(text) THEN <<>>
    ELSE IF text[i].k = "failed" /\ ~text[i].ansi THEN ClassesFrom(text, i + 1, TRUE)
    ELSE IF in_block /\ text[i].k = "class" /\ ~text[i].ansi
         THEN <<text[i].cls>> \o ClassesFrom(text, i + 1, TRUE)
    ELSE ClassesFrom(text, i + 1, FALSE)

parse_failing_classes(out) == Dedupe(ClassesFrom(strip_ansi(out), 1, FALSE))

-----------------------------------------------------------------------------
(* Inputs: budgets, file contents and runner outputs                       *)

PA == << <<1, 2, 9, 5, 2, 8>>, <<3, 7, 0, 6, 7, 8, 6, 8>> >>
PB == << <<1, 2, 9, 0, 0, 0>>, <<3, 7, 0, 0, 0, 0, 0, 0>> >>
PC == << <<1, 0, 0, 0, 0, 0, 0>>, <<2, 1, 4, 7, 4, 8, 3, 6, 4, 8>> >>

Pairs == {PA, PB, PC}

F1 == find_test_files[1]
F2 == find_test_files[2]

\* ExUnits(memory = 129_528, steps = 37_067868)
LitA == <<"ExUnits(", "memory", " ", "=", " ", "1", "2", "9", "_", "5", "2", "8", ",", " ",
          "steps", " ", "=", " ", "3", "7", "_", "0", "6", "7", "8", "6", "8", ")">>

\* ExUnits(129000,37000000)
LitB == <<"ExUnits(", "1", "2", "9", "0", "0", "0", ",",
          "3", "7", "0", "0", "0", "0", "0", "0", ")">>

\* ExUnits( memory=1_000_000 ,<newline> 2147483648L ): grouped by threes, named in part
LitC == <<"ExUnits(", " ", "memory", "=", "1", "_", "0", "0", "0", "_", "0", "0", "0", " ", ",",
          "\n", "2", "1", "4", "7", "4", "8", "3", "6", "4", "8", "L", " ", ")">>

\* ExUnits(steps = 37_067868, memory = 129_528): not the syntax EXUNITS_RE reads
LookAlike == <<"ExUnits(", "steps", " ", "=", " ", "3", "7", "_", "0", "6", "7", "8", "6", "8",
               ",", " ", "memory", " ", "=", " ", "1", "2", "9", "_", "5", "2", "8", ")">>

\* a line  assert(size == 123)  and a test name  "size is 123"
SizeLine == <<"x", "1", "2", "3", "x">>
SizeName == <<"size is ", "1", "2", "3">>

Expected(p) == Line("expected", <<str(p[1]), str(p[2])>>, NoPair, "", <<>>, <<>>)
Got(p) == Line("got", <<str(p[1]), str(p[2])>>, NoPair, "", <<>>, <<>>)
Equal(actual, expected) ==
    Line("equal", <<str(actual[1]), str(actual[2])>>, <<str(expected[1]), str(expected[2])>>,
         "", <<>>, <<>>)
Size(actual, expected, file, line) ==
    Line("size", <<str(actual), str(expected)>>, NoPair, file, str(line), <<>>)
Failed == Line("failed", NoPair, NoPair, "", <<>>, <<>>)
Class(cls) == Line("class", NoPair, NoPair, "", <<>>, cls)
Text == Line("text", NoPair, NoPair, "", <<>>, <<>>)
Ansi(l) == [l EXCEPT !.ansi = TRUE]
Spaced(l) == [l EXCEPT !.sp = TRUE]

CoreClass == <<"scalus", "uplc", "BudgetTest">>
ExampleClass == <<"scalus", "examples", "OtherTest">>

\* the file systems main may start from
InitialFiles ==
    { [f \in {F1, F2} |-> IF f = F1 THEN LitA \o <<"\n">> \o SizeLine \o <<"\n">> \o SizeName
                                     ELSE <<"x">> \o LitB],
      [f \in {F1, F2} |-> IF f = F1 THEN LookAlike \o <<"\n">> \o <<"x">>
                                     ELSE LitC] }

\* what one call of the runner may print
OutNone == <<Text>>
OutStall == <<Failed, Class(CoreClass)>>
OutSwap == <<Ansi(Expected(PA)), Text, Got(PB), Equal(PA, PB), Failed, Class(CoreClass)>>
OutSize == <<Size(<<8, 3>>, <<1, 2, 3>>, "BudgetTest.scala", <<2>>), Expected(PA), Text,
             Got(PB), Equal(PA, PB)>>
OutAB == <<Expected(PA), Text, Got(PB), Failed, Class(ExampleClass), Class(CoreClass)>>
OutBC == <<Equal(PC, PB)>>

\* the outputs the runner chooses from during one invocation of main
Worlds ==
    { {OutStall, OutSwap},
      {OutNone, OutSize},
      {OutStall, OutAB, OutBC} }

RCs == {0, 1}

-----------------------------------------------------------------------------
(* Test runners                                                            *)

\* the pairs of the literals EXUNITS_RE finds in c from position p, in order
RECURSIVE LiteralsFrom(_, _)
LiteralsFrom(c, p) ==
    IF p > Len(c) THEN <<>>
    ELSE LET m == EXUNITS_RE(c, p)
         IN  IF m.ok THEN << <<strip_num(m.g1), strip_num(m.g2)>> >> \o LiteralsFrom(c, m.end)
             ELSE LiteralsFrom(c, p + 1)

Literals(c) == LiteralsFrom(c, 1)

\* a command: the sbt task and the classes it names
Quick == [task |-> "quick", classes |-> <<>>]

\* the truthful runner: env.sites are the budget assertions of the suite, each
\* the idx-th literal of a file, with the budget the code really has.  A run
\* fails the assertions it covers whose literal differs from it.
Covers(cmd, site) ==
    cmd.task = "quick" \/ \E i \in 1..Len(cmd.classes) : cmd.classes[i] = site.cls

\* the assertions a run of cmd covers, each with the budget its literal states
Observed(cmd) ==
    LET covered == SelectSeq(env.sites, LAMBDA site : Covers(cmd, site))
    IN  [i \in 1..Len(covered) |->
            [site |-> covered[i], cur |-> Literals(files[covered[i].file])[covered[i].idx]]]

\* what the runner prints for the failing assertions, and its exit code
Says(failing) ==
    IF failing = <<>> THEN <<<<Text>>, 0>>
    ELSE <<Flatten([i \in 1..Len(failing) |->
                IF failing[i].site.form = 1
                THEN <<Expected(failing[i].cur), Text, Got(failing[i].site.truth)>>
                ELSE <<Equal(failing[i].site.truth, failing[i].cur)>>])
            \o <<Failed>>
            \o [c \in 1..Len(Dedupe([i \in 1..Len(failing) |-> failing[i].site.cls])) |->
                    Class(Dedupe([i \in 1..Len(failing) |-> failing[i].site.cls])[c])],
           1>>

TruthOutput(cmd) ==
    Says(SelectSeq(Observed(cmd), LAMBDA o : o.cur # o.site.truth))

\* run_sbtn(cmd): the (output, returncode) it may return
run_sbtn(cmd) ==
    IF env.mode = "truth" THEN {TruthOutput(cmd)} ELSE env.outputs \X RCs

\* "benchmarks" in cls or cls.startswith("scalus.examples")
IsExample(cls) ==
    \/ \E i \in 1..Len(cls) : cls[i] = "benchmarks"
    \/ Len(cls) >= 2 /\ cls[1] = "scalus" /\ cls[2] = "examples"

\* no call: the branch of run_specific_tests (or of main) not taken
NoCall == <<<<>>, -1>>

\* run_specific_tests, line 305: what the call for the core classes may
\* return, NoCall when it is not made
CoreCall(classes) ==
    LET core_classes == SelectSeq(classes, LAMBDA cls : ~IsExample(cls))
    IN  IF core_classes # <<>>
        THEN run_sbtn([task |-> "scalusJVM/testOnly", classes |-> core_classes])
        ELSE {NoCall}

\* run_specific_tests, line 311: the same for the example classes
ExampleCall(classes) ==
    LET example_classes == SelectSeq(classes, LAMBDA cls : IsExample(cls))
    IN  IF example_classes # <<>>
        THEN run_sbtn([task |-> "scalusExamplesJVM/testOnly", classes |-> example_classes])
        ELSE {NoCall}

\* lines 382-386 and 436-439: the full suite when no class is known
QuickCall(classes) == IF classes = <<>> THEN run_sbtn(Quick) ELSE {NoCall}

\* the calls made, in order, as <<output, returncode>>
Made(rs) == SelectSeq(rs, LAMBDA r : r # NoCall)

\* the return code of the rerun: of the last call that failed, else 0
RECURSIVE SpecificCode(_)
SpecificCode(rs) ==
    IF rs = <<>> THEN 0
    ELSE IF rs[Len(rs)][2] # 0 THEN rs[Len(rs)][2]
    ELSE SpecificCode(SubSeq(rs, 1, Len(rs) - 1))

\* the output of the rerun: the outputs of its calls, in order
SpecificOutput(rs) == Flatten([i \in 1..Len(rs) |-> rs[i][1]])

-----------------------------------------------------------------------------
(* History                                                                 *)

RECURSIVE UniformAfter(_, _)
UniformAfter(u, rs) ==
    IF rs = <<>> THEN u
    ELSE UniformAfter(
            IF rs[1][2] = 0 THEN [st |-> "mixed", out |-> <<>>]
            ELSE IF u.st = "none" THEN [st |-> "same", out |-> rs[1][1]]
            ELSE IF u.st = "same" /\ u.out = rs[1][1] THEN u
            ELSE [st |-> "mixed", out |-> <<>>],
            Tail(rs))

\* the history after the run_sbtn calls rs, the latest for task
Ran(rs, task) ==
    /\ calls' = [n |-> calls.n + Len(rs), last |-> task]
    /\ uniform' = UniformAfter(uniform, rs)
    /\ dirty' = FALSE

RanRerun(rs, classes) ==
    Ran(rs, IF classes = <<>> THEN "quick" ELSE "testOnly")

\* the history after a replacement round that leaves the file system fs
Patched(fs) ==
    /\ wrote' = (wrote \/ fs # files)
    /\ dirty' = (dirty \/ fs # files)

-----------------------------------------------------------------------------
(* main                                                                    *)

\* lines 370-371 and 426-427: the second replacement, after the first gave r1
ThenSizes(r1, r2) ==
    [files |-> r2.files, updated |-> Dedupe(r1.updated \o r2.updated),
     written |-> r1.written \cup r2.written]

AfterExunits(sizes, r1) == ThenSizes(r1, replace_sizes(sizes, r1.files))

\* lines 369-371 and 425-427: both replacements, and the list of files updated
ApplyReplacements(map, sizes, fs) == AfterExunits(sizes, replace_exunits(map, fs))

\* a loop bound one iteration too long
Exhausted_OneMore(i) == i > MAX_ITERATIONS

\* lines 341 and 421: range(MAX_ITERATIONS) has no i-th value
Exhausted(i) == i >= MAX_ITERATIONS

\* a controller that replaces in dry-run mode too
AfterParse_IgnoresDry(none) == IF none THEN "report" ELSE "replace"

\* a controller that reruns the tests when nothing was parsed
AfterParse_Continues(none) ==
    IF none THEN "rerun" ELSE IF dry_run THEN "report" ELSE "replace"

\* lines 355-366: where the primary loop goes after parsing, none saying
\* that no mismatch was parsed
AfterParse(none) == IF none \/ dry_run THEN "report" ELSE "replace"

\* a controller that reruns the tests when no file was updated
AfterReplace_Continues(upd) == "rerun"

\* lines 373-380: where the primary loop goes after the replacements
AfterReplace(upd) == IF upd # <<>> THEN "rerun" ELSE "report"

\* a controller that takes a passing rerun for success
AfterReport_TrustsRerun == IF dry_run \/ rc = 0 THEN "done" ELSE "verify"

\* lines 398-400: where main goes after the statistics
AfterReport == IF dry_run THEN "done" ELSE "verify"

\* lines 323-339
Start ==
    /\ pc = "start"
    /\ \E r \in run_sbtn(Quick) :
        /\ output' = r[1]
        /\ rc' = r[2]
        /\ Ran(<<r>>, "quick")
        /\ IF r[2] = 0
           THEN ret' = 0 /\ pc' = "done"
           ELSE ret' = ret /\ pc' = "loop"
    /\ UNCHANGED <<dry_run, exunits_map, size_mismatches, new_classes, failing_classes,
                   all_exunits, all_sizes, total_updated_files, updated, iteration,
                   files, env, probe, wrote, written, stalled, rounds, before>>

\* lines 341-366 (and 391-392 when the range is exhausted)
LoopParse ==
    /\ pc = "loop"
    /\ IF Exhausted(iteration)
       THEN /\ pc' = "report"
            /\ UNCHANGED <<exunits_map, size_mismatches, new_classes, failing_classes,
                           all_exunits, all_sizes, stalled>>
       ELSE LET parsed == parse_failures(output)
                classes == parse_failing_classes(output)
                known == IF classes # <<>> THEN classes ELSE failing_classes
                none == DOMAIN parsed.exunits_map = {} /\ parsed.size_mismatches = <<>>
            IN  /\ exunits_map' = parsed.exunits_map
                /\ size_mismatches' = parsed.size_mismatches
                /\ new_classes' = classes
                /\ failing_classes' = known
                /\ stalled' = (stalled \/ (none /\ known # <<>>))
                /\ all_exunits' = IF none THEN all_exunits
                                  ELSE DictUpdate(all_exunits, parsed.exunits_map)
                /\ all_sizes' = IF none THEN all_sizes
                                ELSE all_sizes \o parsed.size_mismatches
                /\ pc' = AfterParse(none)
    /\ UNCHANGED <<dry_run, output, rc, total_updated_files, updated, iteration, files,
                   ret, env, probe, calls, wrote, written, dirty, rounds, uniform, before>>

\* lines 369-376 and 425-432: the replacement round that returned r
Replaced(r) ==
    /\ files' = r.files
    /\ updated' = r.updated
    /\ Patched(r.files)
    /\ written' = r.written
    /\ total_updated_files' = total_updated_files \cup Range(r.updated)

\* lines 368-380
LoopReplace ==
    /\ pc = "replace"
    /\ Replaced(ApplyReplacements(exunits_map, size_mismatches, files))
    /\ pc' = AfterReplace(updated')
    /\ rounds' = [rounds EXCEPT !.primary = @ + 1]
    /\ UNCHANGED <<dry_run, output, rc, exunits_map, size_mismatches, new_classes,
                   failing_classes, all_exunits, all_sizes, iteration, ret, env, probe, calls,
                   stalled, uniform, before>>

\* lines 382-390
LoopRerun ==
    /\ pc = "rerun"
    /\ \E q \in QuickCall(failing_classes), a \in CoreCall(failing_classes), b \in ExampleCall(failing_classes) :
      LET rs == Made(<<q, a, b>>)
      IN
        /\ output' = SpecificOutput(rs)
        /\ rc' = SpecificCode(rs)
        /\ RanRerun(rs, failing_classes)
        /\ IF SpecificCode(rs) = 0
           THEN pc' = "report" /\ iteration' = iteration
           ELSE pc' = "loop" /\ iteration' = iteration + 1
    /\ UNCHANGED <<dry_run, exunits_map, size_mismatches, new_classes, failing_classes,
                   all_exunits, all_sizes, total_updated_files, updated, files, ret, env, probe,
                   wrote, written, stalled, rounds, before>>

\* lines 394-400
Report ==
    /\ pc = "report"
    /\ pc' = AfterReport
    /\ ret' = IF AfterReport = "done" THEN 0 ELSE ret
    /\ UNCHANGED <<dry_run, output, rc, exunits_map, size_mismatches, new_classes,
                   failing_classes, all_exunits, all_sizes, total_updated_files, updated,
                   iteration, files, env, probe, calls, wrote, written, dirty, stalled, rounds, uniform,
                   before>>

\* lines 402-419
Verify ==
    /\ pc = "verify"
    /\ \E r \in run_sbtn(Quick) :
        /\ output' = r[1]
        /\ rc' = r[2]
        /\ Ran(<<r>>, "quick")
        /\ IF r[2] = 0
           THEN /\ ret' = 0
                /\ pc' = "done"
                /\ UNCHANGED <<exunits_map, size_mismatches, new_classes, iteration>>
           ELSE LET parsed == parse_failures(r[1])
                IN  /\ exunits_map' = parsed.exunits_map
                    /\ size_mismatches' = parsed.size_mismatches
                    /\ new_classes' = parse_failing_classes(r[1])
                    /\ ret' = ret
                    /\ IF DOMAIN parsed.exunits_map # {} \/ parsed.size_mismatches # <<>>
                       THEN pc' = "retry" /\ iteration' = 0
                       ELSE pc' = "fail" /\ iteration' = iteration
    /\ UNCHANGED <<dry_run, failing_classes, all_exunits, all_sizes, total_updated_files,
                   updated, files, env, probe, wrote, written, stalled, rounds, before>>

\* lines 421-423 (the retry cycle's for and its merge)
RetryMerge ==
    /\ pc = "retry"
    /\ IF Exhausted(iteration)
       THEN pc' = "final" /\ UNCHANGED <<all_exunits, all_sizes>>
       ELSE /\ all_exunits' = DictUpdate(all_exunits, exunits_map)
            /\ all_sizes' = all_sizes \o size_mismatches
            /\ pc' = "retry_replace"
    /\ UNCHANGED <<dry_run, output, rc, exunits_map, size_mismatches, new_classes,
                   failing_classes, total_updated_files, updated, iteration, files, ret,
                   env, probe, calls, wrote, written, dirty, stalled, rounds, uniform, before>>

\* lines 425-434
RetryReplace ==
    /\ pc = "retry_replace"
    /\ Replaced(ApplyReplacements(exunits_map, size_mismatches, files))
    /\ pc' = IF updated' # <<>> THEN "retry_rerun" ELSE "final"
    /\ rounds' = [rounds EXCEPT !.retry = @ + 1]
    /\ UNCHANGED <<dry_run, output, rc, exunits_map, size_mismatches, new_classes,
                   failing_classes, all_exunits, all_sizes, iteration, ret, env, probe, calls,
                   stalled, uniform, before>>

\* lines 436-448
RetryRerun ==
    /\ pc = "retry_rerun"
    /\ \E q \in QuickCall(new_classes), a \in CoreCall(new_classes), b \in ExampleCall(new_classes) :
      LET rs == Made(<<q, a, b>>)
      IN
        /\ output' = SpecificOutput(rs)
        /\ rc' = SpecificCode(rs)
        /\ RanRerun(rs, new_classes)
        /\ IF SpecificCode(rs) = 0
           THEN /\ pc' = "final"
                /\ UNCHANGED <<exunits_map, size_mismatches, new_classes, iteration>>
           ELSE LET parsed == parse_failures(SpecificOutput(rs))
                IN  /\ exunits_map' = parsed.exunits_map
                    /\ size_mismatches' = parsed.size_mismatches
                    /\ new_classes' = parse_failing_classes(SpecificOutput(rs))
                    /\ IF DOMAIN parsed.exunits_map = {} /\ parsed.size_mismatches = <<>>
                       THEN pc' = "final" /\ iteration' = iteration
                       ELSE pc' = "retry" /\ iteration' = iteration + 1
    /\ UNCHANGED <<dry_run, failing_classes, all_exunits, all_sizes, total_updated_files,
                   updated, files, ret, env, probe, wrote, written, stalled, rounds, before>>

\* lines 450-459
FinalCheck ==
    /\ pc = "final"
    /\ \E r \in run_sbtn(Quick) :
        /\ output' = r[1]
        /\ rc' = r[2]
        /\ Ran(<<r>>, "quick")
        /\ IF r[2] = 0
           THEN ret' = 0 /\ pc' = "done"
           ELSE ret' = ret /\ pc' = "fail"
    /\ UNCHANGED <<dry_run, exunits_map, size_mismatches, new_classes, failing_classes,
                   all_exunits, all_sizes, total_updated_files, updated, iteration,
                   files, env, probe, wrote, written, stalled, rounds, before>>

\* lines 461-467
Fail ==
    /\ pc = "fail"
    /\ new_classes' = parse_failing_classes(output)
    /\ ret' = 1
    /\ pc' = "done"
    /\ UNCHANGED <<dry_run, output, rc, exunits_map, size_mismatches, failing_classes,
                   all_exunits, all_sizes, total_updated_files, updated, iteration, files,
                   env, probe, calls, wrote, written, dirty, stalled, rounds, uniform, before>>

\* the state main starts in, on the file system fs with the runner e
MainInit(fs, e) ==
    /\ pc = "start"
    /\ dry_run \in BOOLEAN
    /\ output = <<>>
    /\ rc = 0
    /\ exunits_map = EmptyMap
    /\ size_mismatches = <<>>
    /\ new_classes = <<>>
    /\ failing_classes = <<>>
    /\ all_exunits = EmptyMap
    /\ all_sizes = <<>>
    /\ total_updated_files = {}
    /\ updated = <<>>
    /\ iteration = 0
    /\ files = fs
    /\ ret = -1
    /\ env = e
    /\ probe = <<>>
    /\ calls = [n |-> 0, last |-> "none"]
    /\ wrote = FALSE
    /\ written = {}
    /\ dirty = FALSE
    /\ stalled = FALSE
    /\ rounds = [primary |-> 0, retry |-> 0]
    /\ uniform = [st |-> "none", out |-> <<>>]
    /\ before = fs

Init ==
    \E fs \in InitialFiles, w \in Worlds :
        MainInit(fs, [mode |-> "any", outputs |-> w, sites |-> <<>>])

Next ==
    \/ Start
    \/ LoopParse
    \/ LoopReplace
    \/ LoopRerun
    \/ Report
    \/ Verify
    \/ RetryMerge
    \/ RetryReplace
    \/ RetryRerun
    \/ FinalCheck
    \/ Fail

Spec == Init /\ [][Next]_vars

\* the program points of main
PCs ==
    {"start", "loop", "replace", "rerun", "report", "verify", "retry",
     "retry_replace", "retry_rerun", "final", "fail", "done"}

\* main is sequential and every statement of it completes (subprocess.run
\* blocks until the runner exits and then returns): control leaves every
\* program point but the return
Advance == pc # "done" /\ pc' \in PCs \ {pc}

\* the controller under that scheduling.  Every step of Next changes pc and
\* Next is enabled at every program point but "done", so this is weak
\* fairness of Next, stated on the program counter alone
SpecLive == Init /\ [][Next]_vars /\ WF_pc(Advance)

-----------------------------------------------------------------------------
(* replace_exunits on its own: a mapping and file contents are drawn, and   *)
(* the function is applied twice with the same mapping                      *)

\* the longest file content drawn, in segments
MaxSegs == 2

\* ExUnits(129528, 37067868)
LitA2 == <<"ExUnits(", "1", "2", "9", "5", "2", "8", ",", " ",
           "3", "7", "0", "6", "7", "8", "6", "8", ")">>

\* a piece of a file: a literal stating pair, or text that is none (NoPair)
Lit(text, pair) == [text |-> text, pair |-> pair]
Other(text) == [text |-> text, pair |-> NoPair]

Segments ==
    { Lit(LitA, PA), Lit(LitA2, PA), Lit(LitB, PB), Lit(LitC, PC),
      Other(<<"x">>), Other(LookAlike), Other(<<"1", "2", "9", "5", "2", "8">>) }

SegSeqs == UNION {[1..n -> Segments] : n \in 1..MaxSegs}

\* the content made of the segments ss
Content(ss) == Flatten([i \in 1..Len(ss) |-> ss[i].text])

\* the mappings over the budgets: every function from some of them to them
Mappings == UNION {[S -> Pairs] : S \in SUBSET Pairs}

\* the state a unit specification starts in: main's variables at rest
UnitInit(p, e) ==
    /\ pc = p
    /\ dry_run = FALSE
    /\ rc = 0
    /\ new_classes = <<>>
    /\ failing_classes = <<>>
    /\ all_exunits = EmptyMap
    /\ all_sizes = <<>>
    /\ total_updated_files = {}
    /\ updated = <<>>
    /\ iteration = 0
    /\ ret = -1
    /\ env = e
    /\ probe = <<>>
    /\ calls = [n |-> 0, last |-> "none"]
    /\ wrote = FALSE
    /\ written = {}
    /\ dirty = FALSE
    /\ stalled = FALSE
    /\ rounds = [primary |-> 0, retry |-> 0]
    /\ uniform = [st |-> "none", out |-> <<>>]

ReplaceInit ==
    \E map \in Mappings, s1 \in SegSeqs, s2 \in {<<Other(<<"x">>)>>, <<Other(<<"x">>), Lit(LitB, PB)>>} :
        /\ output = <<>>
        /\ exunits_map = map
        /\ size_mismatches = <<>>
        /\ files = [f \in {F1, F2} |-> IF f = F1 THEN Content(s1) ELSE Content(s2)]
        /\ before = files
        /\ UnitInit("rx0", [mode |-> "unit", outputs |-> {}, sites |-> <<>>,
                            segs |-> [f \in {F1, F2} |-> IF f = F1 THEN s1 ELSE s2]])

\* one call replace_exunits(exunits_map): the first (at "rx0") or the second
ReplaceExunits ==
    /\ pc \in {"rx0", "rx1"}
    /\ Replaced(replace_exunits(exunits_map, files))
    /\ before' = files
    /\ rounds' = [rounds EXCEPT !.primary = @ + 1]
    /\ pc' = IF pc = "rx0" THEN "rx1" ELSE "rx2"
    /\ UNCHANGED <<dry_run, output, rc, exunits_map, size_mismatches, new_classes,
                   failing_classes, all_exunits, all_sizes, iteration, ret, env, probe, calls,
                   stalled, uniform>>

ReplaceNext == ReplaceExunits

SpecReplace == ReplaceInit /\ [][ReplaceNext]_vars

-----------------------------------------------------------------------------
(* replace_sizes on its own: a mismatch list and file contents are drawn,   *)
(* and the function is applied twice with the same list                     *)

\* the longest mismatch list drawn
MaxSizes == 2

\* the longest file drawn, in lines
MaxFileLines == 2

\* the lines a file is made of
SizeTexts ==
    { <<"x", "8", "x">>, <<"8", "8">>, <<"size is ", "8">>, <<"x">> }

\* a size mismatch as parse_failures returns it
Sz(old, new, fname, line) == <<old, new, fname, line>>

SizeMismatches ==
    { Sz(<<8>>, <<3, 8>>, "BudgetTest.scala", 1),
      Sz(<<8>>, <<3>>, "BudgetTest.scala", 2),
      Sz(<<3>>, <<5>>, "BudgetTest.scala", 1),
      Sz(<<8>>, <<3>>, "OtherTest.scala", 1),
      Sz(<<8>>, <<3>>, "BudgetTest.scala", 4) }

SizesInit ==
    \E sizes \in UNION {[1..n -> SizeMismatches] : n \in 0..MaxSizes},
       ls \in UNION {[1..n -> SizeTexts] : n \in 1..MaxFileLines} :
        /\ output = <<>>
        /\ exunits_map = EmptyMap
        /\ size_mismatches = sizes
        /\ files = [f \in {F1, F2} |-> IF f = F1 THEN join(ls) ELSE <<"x", "8", "x">>]
        /\ before = files
        /\ UnitInit("sz0", [mode |-> "unit", outputs |-> {}, sites |-> <<>>])

\* one call replace_sizes(size_mismatches): the first (at "sz0") or the second
ReplaceSizes ==
    /\ pc \in {"sz0", "sz1"}
    /\ Replaced(replace_sizes(size_mismatches, files))
    /\ before' = files
    /\ rounds' = [rounds EXCEPT !.primary = @ + 1]
    /\ pc' = IF pc = "sz0" THEN "sz1" ELSE "sz2"
    /\ UNCHANGED <<dry_run, output, rc, exunits_map, size_mismatches, new_classes,
                   failing_classes, all_exunits, all_sizes, iteration, ret, env, probe, calls,
                   stalled, uniform>>

SizesNext == ReplaceSizes

SpecSizes == SizesInit /\ [][SizesNext]_vars

\* both functions of the replacement engine, each on the inputs drawn for it
EngineInit == ReplaceInit \/ SizesInit

EngineNext == ReplaceExunits \/ ReplaceSizes

SpecEngine == EngineInit /\ [][EngineNext]_vars

-----------------------------------------------------------------------------
(* The codec on its own: a number is drawn, formatted and read back         *)

\* the longest number drawn digit by digit
MaxDigits == 7

CodecDigits == {0, 1, 9}

\* numbers around Int.MaxValue and beyond, and the budgets of the examples
Landmarks ==
    { INT_MAX,
      <<2, 1, 4, 7, 4, 8, 3, 6, 4, 6>>, <<2, 1, 4, 7, 4, 8, 3, 6, 4, 8>>,
      <<1, 0, 0, 0, 0, 0, 0, 0, 0, 0>>, <<9, 9, 9, 9, 9, 9, 9, 9, 9, 9>>,
      <<1, 0, 0, 0, 0, 0, 0, 0, 0, 0, 0>>,
      <<1, 2, 9, 5, 2, 8>>, <<3, 7, 0, 6, 7, 8, 6, 8>> }

\* the non-negative ints drawn: no leading zero
Numbers ==
    {n \in UNION {[1..k -> CodecDigits] : k \in 1..MaxDigits} : Len(n) = 1 \/ n[1] # 0}
        \cup Landmarks

CodecInit ==
    \E n \in Numbers :
        /\ output = <<>>
        /\ exunits_map = EmptyMap
        /\ size_mismatches = <<>>
        /\ files = [f \in {F1, F2} |-> <<>>]
        /\ before = files
        /\ UnitInit("fmt0", [mode |-> "unit", outputs |-> {}, sites |-> <<>>, n |-> n])

\* output = fmt_num(n)
Format ==
    /\ pc = "fmt0"
    /\ output' = fmt_num(env.n)
    /\ pc' = "fmt1"
    /\ UNCHANGED <<dry_run, rc, exunits_map, size_mismatches, new_classes, failing_classes,
                   all_exunits, all_sizes, total_updated_files, updated, iteration, files,
                   ret, env, probe, calls, wrote, written, dirty, stalled, rounds, uniform,
                   before>>

\* probe = strip_num(output)
Strip ==
    /\ pc = "fmt1"
    /\ probe' = strip_num(output)
    /\ pc' = "fmt2"
    /\ UNCHANGED <<dry_run, output, rc, exunits_map, size_mismatches, new_classes,
                   failing_classes, all_exunits, all_sizes, total_updated_files, updated,
                   iteration, files, ret, env, calls, wrote, written, dirty, stalled,
                   rounds, uniform, before>>

CodecNext == Format \/ Strip

SpecCodec == CodecInit /\ [][CodecNext]_vars

-----------------------------------------------------------------------------
(* report_statistics on its own: an accumulated mapping and size list are   *)
(* drawn and reported                                                       *)

\* old budgets, some with a zero component, and the components of new ones
StatKeys == { << <<1>>, <<2>> >>, << <<0>>, <<2>> >>, << <<2>>, <<0>> >> }
StatValues == { <<0>>, <<1>>, <<2>> } \X { <<0>>, <<2>>, <<3>> }

StatSizes ==
    { <<>>,
      << Sz(<<0>>, <<3>>, "BudgetTest.scala", 1) >>,
      << Sz(<<8>>, <<3>>, "BudgetTest.scala", 2), Sz(<<3>>, <<8>>, "OtherTest.scala", 1) >> }

StatsInit ==
    \E map \in UNION {[S -> StatValues] : S \in SUBSET StatKeys}, sizes \in StatSizes :
        /\ output = <<>>
        /\ exunits_map = EmptyMap
        /\ size_mismatches = <<>>
        /\ files = [f \in {F1, F2} |-> <<>>]
        /\ before = files
        /\ pc = "st0"
        /\ dry_run = FALSE
        /\ rc = 1
        /\ new_classes = <<>>
        /\ failing_classes = <<>>
        /\ all_exunits = map
        /\ all_sizes = sizes
        /\ total_updated_files = {}
        /\ updated = <<>>
        /\ iteration = 0
        /\ ret = -1
        /\ env = [mode |-> "unit", outputs |-> {}, sites |-> <<>>, map |-> map, sizes |-> sizes]
        /\ probe = <<>>
        /\ calls = [n |-> 1, last |-> "quick"]
        /\ wrote = FALSE
        /\ written = {}
        /\ dirty = FALSE
        /\ stalled = FALSE
        /\ rounds = [primary |-> 0, retry |-> 0]
        /\ uniform = [st |-> "none", out |-> <<>>]

\* report_statistics(all_exunits, all_sizes), as at line 396
ReportStatistics ==
    /\ pc = "st0"
    /\ probe' = report_statistics(all_exunits, all_sizes)
    /\ pc' = "st1"
    /\ UNCHANGED <<dry_run, output, rc, exunits_map, size_mismatches, new_classes,
                   failing_classes, all_exunits, all_sizes, total_updated_files, updated,
                   iteration, files, ret, env, calls, wrote, written, dirty, stalled,
                   rounds, uniform, before>>

StatsNext == ReportStatistics

SpecStats == StatsInit /\ [][StatsNext]_vars

-----------------------------------------------------------------------------
(* parse_failures on its own: an output is drawn and parsed                 *)

\* the longest output drawn, in lines
MaxLines == 3

\* small budgets, and the scalars that make them up
P12 == << <<1>>, <<2>> >>
P21 == << <<2>>, <<1>> >>
P34 == << <<3>>, <<4>> >>

\* "X did not equal Y (BudgetTest.scala:7)"
Scalar(X, Y) == Size(<<X>>, <<Y>>, "BudgetTest.scala", <<7>>)

ParseLines ==
    { Expected(P12), Spaced(Expected(P34)), Got(P34), Got(P21),
      Equal(P34, P12), Spaced(Equal(P21, P12)), Ansi(Equal(P12, P34)),
      Scalar(2, 1), Scalar(1, 2), Scalar(4, 3), Scalar(5, 5), Ansi(Scalar(6, 5)),
      Text }

ParseInit ==
    /\ output \in UNION {[1..n -> ParseLines] : n \in 0..MaxLines}
    /\ exunits_map = EmptyMap
    /\ size_mismatches = <<>>
    /\ files = [f \in {F1, F2} |-> <<>>]
    /\ before = files
    /\ UnitInit("parse", [mode |-> "unit", outputs |-> {}, sites |-> <<>>])

\* exunits_map, size_mismatches = parse_failures(output)
Parsed(r) ==
    /\ exunits_map' = r.exunits_map
    /\ size_mismatches' = r.size_mismatches

Parse ==
    /\ pc = "parse"
    /\ Parsed(parse_failures(output))
    /\ pc' = "parsed"
    /\ UNCHANGED <<dry_run, output, rc, new_classes, failing_classes, all_exunits,
                   all_sizes, total_updated_files, updated, iteration, files, ret, env, probe,
                   calls, wrote, written, dirty, stalled, rounds, uniform, before>>

ParseNext == Parse

SpecParse == ParseInit /\ [][ParseNext]_vars

-----------------------------------------------------------------------------
(* main against the truthful runner: the suite has three budget            *)
(* assertions, two in one class of the first file and one in a class of    *)
(* the second; each has the budget the code really uses                    *)

Site(file, idx, cls, truth, form) ==
    [file |-> file, idx |-> idx, cls |-> cls, truth |-> truth, form |-> form]

\* the literals an assertion may start with
StartLits == {Lit(LitA, PA), Lit(LitB, PB), Lit(LitC, PC)}

ConvInit ==
    \E l1 \in StartLits, l2 \in StartLits, t1 \in Pairs, t2 \in Pairs, t3 \in {PC, PA},
       form \in {1, 2} :
        MainInit([f \in {F1, F2} |-> IF f = F1 THEN l1.text \o <<"\n">> \o l2.text
                                              ELSE <<"x">> \o LitC],
                 [mode |-> "truth", outputs |-> {},
                  sites |-> <<Site(F1, 1, CoreClass, t1, form),
                              Site(F1, 2, CoreClass, t2, 1),
                              Site(F2, 1, ExampleClass, t3, 2)>>])

SpecConv == ConvInit /\ [][Next]_vars

-----------------------------------------------------------------------------
(* The controller's claims                                                 *)

\* the most run_sbtn calls one invocation makes: the initial run, a rerun of
\* up to two calls in each iteration of either loop, the verification run
\* and the final check
MaxCalls == 1 + 2 * MAX_ITERATIONS + 1 + 2 * MAX_ITERATIONS + 1

\* C3: for every behaviour of the runner main returns an exit status (0 or
\* 1); the primary loop makes at most MAX_ITERATIONS replacement rounds and
\* the retry cycle at most MAX_ITERATIONS more, so the numbers of runner
\* calls and of replacement rounds are bounded.
C3_Termination ==
    /\ <>(pc = "done" /\ ret \in {0, 1})
    /\ [](/\ iteration <= MAX_ITERATIONS
          /\ rounds.primary <= MAX_ITERATIONS
          /\ rounds.retry <= MAX_ITERATIONS
          /\ calls.n <= MaxCalls)

C3_Witness ==
    /\ pc = "done"
    /\ ret = 1
    /\ rounds.primary = MAX_ITERATIONS
    /\ rounds.retry = MAX_ITERATIONS

\* the premise of C4: every run_sbtn call so far failed with one same output,
\* which reports a budget mismatch (and no size mismatch), and no literal of
\* the files main started from states a budget that the mismatch names
FormatDrift ==
    /\ uniform.st = "same"
    /\ DOMAIN parse_failures(uniform.out).exunits_map # {}
    /\ parse_failures(uniform.out).size_mismatches = <<>>
    /\ \A f \in DOMAIN before : \A i \in 1..Len(Literals(before[f])) :
          Literals(before[f])[i] \notin DOMAIN parse_failures(uniform.out).exunits_map

\* what C4 says of the loops under format drift
DriftHalts ==
    /\ ~wrote
    /\ files = before
    /\ rounds.primary <= 1
    /\ rounds.retry <= 1
    /\ iteration = 0

\* C4 as stated: under format drift the controller writes no file, runs at
\* most one iteration of each loop, never reaches the cap, and ends with
\* exit status 1.
C4_AsStated == FormatDrift => (DriftHalts /\ (pc = "done" => ret = 1))

\* C4, amended: the same, with exit status 1 when --dry is not given; with
\* --dry main makes no replacement round at all and returns 0.
C4_DriftHalt ==
    FormatDrift =>
        /\ DriftHalts
        /\ pc = "done" => ret = (IF dry_run THEN 0 ELSE 1)
        /\ dry_run => rounds.primary = 0 /\ rounds.retry = 0

C4_Witness ==
    /\ FormatDrift
    /\ ~dry_run
    /\ pc = "done"
    /\ ret = 1
    /\ rounds.primary = 1
    /\ rounds.retry = 1

\* C5 as stated: once the primary loop has stalled (no mismatch parsed,
\* failing classes known), no file is written for the rest of the invocation.
C5_AsStated == [][stalled => files' = files]_vars

\* C5, amended: once stalled, the primary loop is over (no further parse,
\* replacement or rerun of it) and no file is written before the final
\* full-suite verification; a later write is one of the retry cycle, made
\* for the mismatches that the verification run reported.
C5_StallEndsPrimaryLoop ==
    [][stalled' => /\ pc' \notin {"loop", "replace", "rerun"}
                   /\ files' # files => pc = "retry_replace" /\ calls.n >= 2]_vars

C5_Witness ==
    /\ stalled
    /\ pc = "done"
    /\ rounds.primary = 0
    /\ rounds.retry >= 1
    /\ wrote

\* C7: without --dry, main returns 0 exactly when the latest runner call was
\* the full suite ("quick"), it returned 0, and no file was written after
\* it; otherwise main returns 1.
C7_ExitStatus ==
    (pc = "done" /\ ~dry_run) =>
        /\ ret \in {0, 1}
        /\ ret = 0 <=> (calls.last = "quick" /\ rc = 0 /\ ~dirty)
        /\ ret = 1 <=> (calls.last = "quick" /\ rc # 0 /\ ~dirty)

C7_Witness ==
    /\ pc = "done"
    /\ ~dry_run
    /\ ret = 0
    /\ wrote
    /\ rounds.primary >= 1
    /\ calls.n >= 3

\* C8: with --dry the runner is called exactly once (the initial full-suite
\* run), the replacement engine is never called, no file is written and the
\* set of modified files stays empty.
C8_DryRun ==
    dry_run =>
        /\ calls.n = (IF pc = "start" THEN 0 ELSE 1)
        /\ calls.last \in {"none", "quick"}
        /\ rounds.primary = 0 /\ rounds.retry = 0
        /\ ~wrote
        /\ files = before
        /\ total_updated_files = {}
        /\ pc \in {"start", "loop", "report", "done"}

C8_Witness ==
    /\ dry_run
    /\ pc = "done"
    /\ ret = 0
    /\ rc # 0
    /\ DOMAIN all_exunits # {}

-----------------------------------------------------------------------------
(* The replacement engine's claims                                         *)

\* no entry's value is the key of an entry that maps it to something else
NoChain(map) ==
    \A k \in DOMAIN map : map[k] \in DOMAIN map => map[map[k]] = map[k]

\* the second application changed nothing and returned the empty list
SecondIsNoOp == files = before /\ updated = <<>>

Canonical(p) ==
    CASE p = PA -> <<"ExUnits(", "memory", " ", "=", " ", "1", "2", "9", "5", "2", "8", ",", " ",
                     "steps", " ", "=", " ", "3", "7", "_", "0", "6", "7", "8", "6", "8", ")">>
      [] p = PB -> <<"ExUnits(", "memory", " ", "=", " ", "1", "2", "9", "0", "0", "0", ",", " ",
                     "steps", " ", "=", " ", "3", "7", "_", "0", "0", "0", "0", "0", "0", ")">>
      [] p = PC -> <<"ExUnits(", "memory", " ", "=", " ", "1", "_", "0", "0", "0", "0", "0", "0",
                     ",", " ", "steps", " ", "=", " ",
                     "2", "1", "4", "7", "_", "4", "8", "3", "6", "4", "8", "L", ")">>

\* what C2 says a file made of the segments ss is after the replacement
Precise(map, ss) ==
    Flatten([i \in 1..Len(ss) |->
                IF ss[i].pair \in DOMAIN map THEN Canonical(map[ss[i].pair])
                ELSE ss[i].text])

\* C2: after replace_exunits with a mapping M every literal whose pair is
\* not a key of M, and all text outside literals, is unchanged, and every
\* literal whose pair is a key k is the canonical text of M[k].
C2_Precision ==
    pc = "rx1" => \A f \in DOMAIN files : files[f] = Precise(exunits_map, env.segs[f])

C2_Witness ==
    /\ pc = "rx1"
    /\ \E i, j \in 1..Len(env.segs[F1]) :
          /\ env.segs[F1][i].pair \in DOMAIN exunits_map
          /\ env.segs[F1][j] \in {Lit(LitC, PC), Lit(LitA2, PA)}
          /\ env.segs[F1][j].pair \notin DOMAIN exunits_map
    /\ files[F1] # before[F1]
    /\ files[F2] = before[F2]

-----------------------------------------------------------------------------
(* The parser's claims.  They read the lines of output themselves: a line   *)
(* of kind "size" is the phrase X did not equal Y (file:line) with          *)
(* X = p[1] and Y = p[2]; one of kind "equal" is form 2 with the actual     *)
(* pair p and the expected pair q.                                          *)

ScalarX(l) == int(l.p[1])
ScalarY(l) == int(l.p[2])

\* the size mismatch (Y, X, file, line) of a scalar line
Mismatch(l) == <<ScalarY(l), ScalarX(l), l.file, ToNat(int(l.line))>>

\* the set of values of a mapping
Values(map) == {map[k] : k \in DOMAIN map}

\* C9 as stated: a scalar match is left out when X = Y or when (Y,X) or
\* (X,Y) is a key or a value of the mapping of the same parse; every other
\* one is included.
C9_AsStated ==
    pc = "parsed" =>
        size_mismatches =
            LET kept == SelectSeq(output, LAMBDA l :
                            /\ l.k = "size"
                            /\ ScalarX(l) # ScalarY(l)
                            /\ {<<ScalarY(l), ScalarX(l)>>, <<ScalarX(l), ScalarY(l)>>}
                                  \cap (DOMAIN exunits_map \cup Values(exunits_map)) = {})
            IN  [i \in 1..Len(kept) |-> Mismatch(kept[i])]

\* C9, amended: a scalar match is left out when X = Y or when (Y,X) or
\* (X,Y) is a key of the mapping of the same parse; every other one is
\* included, also when such a pair is the value of an entry.
C9_ScalarExclusion ==
    pc = "parsed" =>
        size_mismatches =
            LET kept == SelectSeq(output, LAMBDA l :
                            /\ l.k = "size"
                            /\ ScalarX(l) # ScalarY(l)
                            /\ {<<ScalarY(l), ScalarX(l)>>, <<ScalarX(l), ScalarY(l)>>}
                                  \cap DOMAIN exunits_map = {})
            IN  [i \in 1..Len(kept) |-> Mismatch(kept[i])]

\* an output where a scalar is left out for a key, one is kept although its
\* pair is a value, and one is left out for being equal
C9_Witness ==
    /\ pc = "parsed"
    /\ P12 \in DOMAIN exunits_map
    /\ exunits_map[P12] = P34
    /\ P34 \notin DOMAIN exunits_map
    /\ \E i \in 1..Len(output) : output[i] = Scalar(1, 2)
    /\ \E i \in 1..Len(output) : output[i] = Scalar(4, 3)
    /\ size_mismatches = <<Mismatch(Scalar(4, 3))>>

\* the lines pattern 1 can match: no blank after the comma
Form1(l, kind) == l.k = kind /\ ~l.sp

\* positions i < j of output hold a form-1 match of expected pair k, actual pair v
Form1Match(k, v) ==
    \E i, j \in 1..Len(output) :
        /\ i < j
        /\ Form1(output[i], "expected") /\ Ints(output[i].p) = k
        /\ Form1(output[j], "got") /\ Ints(output[j].p) = v

\* some line of output is a form-2 match of expected pair k, actual pair v
Form2Match(k, v) ==
    \E i \in 1..Len(output) :
        output[i].k = "equal" /\ Ints(output[i].q) = k /\ Ints(output[i].p) = v

\* C10: the expected value is the old side and the observed value the new
\* side.  Every entry k -> v of the mapping comes from a match with k on
\* the expected and v on the actual side; an output whose only match is one
\* of form 1, or one of form 2, yields exactly (expected -> actual); and
\* every size mismatch is (Y, X, file, line) of a scalar line.
C10_Direction ==
    pc = "parsed" =>
        /\ \A k \in DOMAIN exunits_map :
              Form1Match(k, exunits_map[k]) \/ Form2Match(k, exunits_map[k])
        /\ \A i \in 1..Len(output) :
              (output[i].k = "equal" /\ \A j \in 1..Len(output) : j # i => output[j].k = "text")
                  => /\ DOMAIN exunits_map = {Ints(output[i].q)}
                     /\ exunits_map[Ints(output[i].q)] = Ints(output[i].p)
        /\ \A i, j \in 1..Len(output) :
              (/\ i < j
               /\ Form1(output[i], "expected")
               /\ Form1(output[j], "got")
               /\ \A n \in 1..Len(output) : n \notin {i, j} => output[n].k = "text")
                  => /\ DOMAIN exunits_map = {Ints(output[i].p)}
                     /\ exunits_map[Ints(output[i].p)] = Ints(output[j].p)
        /\ \A n \in 1..Len(size_mismatches) :
              \E i \in 1..Len(output) :
                  output[i].k = "size" /\ size_mismatches[n] = Mismatch(output[i])

C10_Witness ==
    /\ pc = "parsed"
    /\ output = <<Expected(P12), Got(P21), Ansi(Equal(P12, P34))>>
    /\ exunits_map = [k \in {P12, P34} |-> IF k = P12 THEN P21 ELSE P12]

-----------------------------------------------------------------------------
(* The convergence claim                                                   *)

\* every assertion's literal states the budget the code really uses
AllTrue ==
    \A i \in 1..Len(env.sites) :
        Literals(files[env.sites[i].file])[env.sites[i].idx] = env.sites[i].truth

\* C6: against the truthful runner main obtains a passing run within the
\* iteration cap (it returns 0), and then every literal states its
\* assertion's true budget, also when two assertions start with the same
\* pair and have different true budgets.
C6_Converges ==
    (pc = "done" /\ ~dry_run) =>
        /\ ret = 0
        /\ AllTrue
        /\ rounds.primary <= MAX_ITERATIONS

-----------------------------------------------------------------------------
(* The claims on replace_sizes and on writing                               *)

\* whether the text pat occurs in the text c
Contains(c, pat) == \E p \in 1..Len(c) : OccursAt(c, pat, p)

\* the mismatches of the list that name the file f
Naming(f) ==
    {k \in 1..Len(size_mismatches) : size_mismatches[k][3] = name(f)}

\* line n of f is addressed by a mismatch, or held 'size is <old>' of one
Touchable(f, n) ==
    \E k \in Naming(f) :
        \/ size_mismatches[k][4] = n
        \/ Contains(split(before[f])[n], <<"size is ">> \o str(size_mismatches[k][1]))

\* C11: replace_sizes changes only files whose base name a mismatch names;
\* in such a file only the lines whose number a mismatch gives change, and
\* the lines that contain 'size is <old>'; a line number outside the file
\* changes no line.  For a single mismatch the line it addresses (when it
\* holds no 'size is' phrase) is the old line with old replaced by new.
C11_Scope ==
    pc = "sz1" =>
        \A f \in DOMAIN files :
            /\ Naming(f) = {} => files[f] = before[f]
            /\ Len(split(files[f])) = Len(split(before[f]))
            /\ \A n \in 1..Len(split(before[f])) :
                  ~Touchable(f, n) => split(files[f])[n] = split(before[f])[n]
            /\ \A n \in 1..Len(split(before[f])) :
                  (/\ Len(size_mismatches) = 1
                   /\ Naming(f) = {1}
                   /\ size_mismatches[1][4] = n
                   /\ ~Contains(split(before[f])[n], <<"size is ">>))
                      => split(files[f])[n] =
                            Replace(split(before[f])[n], str(size_mismatches[1][1]),
                                    str(size_mismatches[1][2]))

C11_Witness ==
    /\ pc = "sz1"
    /\ size_mismatches = <<Sz(<<8>>, <<3>>, "BudgetTest.scala", 2)>>
    /\ before[F1] = <<"x", "8", "x", "\n", "x", "8", "x">>
    /\ files[F1] = <<"x", "8", "x", "\n", "x", "3", "x">>
    /\ files[F2] = <<"x", "8", "x">>

\* C12: a second application of replace_sizes with the same list changes no
\* file and returns the empty list, also when the old value's text is part
\* of the new value's text.
C12_Idempotent == pc = "sz2" => (files = before /\ updated = <<>>)

\* C13: in replace_exunits and in replace_sizes a file is written if and
\* only if its new content differs from the content read, the list returned
\* holds exactly the files written, each once, and with an empty mapping or
\* an empty mismatch list nothing is written and the empty list is returned.
C13_WriteOnChange ==
    pc \in {"rx1", "rx2", "sz1", "sz2"} =>
        /\ written = {f \in DOMAIN files : files[f] # before[f]}
        /\ Range(updated) = written
        /\ Len(updated) = Cardinality(written)
        /\ (pc \in {"rx1", "rx2"} /\ DOMAIN exunits_map = {})
              => (written = {} /\ updated = <<>>)
        /\ (pc \in {"sz1", "sz2"} /\ size_mismatches = <<>>)
              => (written = {} /\ updated = <<>>)

\* one file written and listed, the other read and left alone
C13_Witness ==
    /\ pc = "sz1"
    /\ written = {F1}
    /\ updated = <<F1>>
    /\ files[F1] # before[F1]
    /\ files[F2] = before[F2]
    /\ Len(size_mismatches) = 2

-----------------------------------------------------------------------------
(* The codec's claims                                                      *)

\* C14: for every non-negative integer n, strip_num(fmt_num(n)) = n.
C14_RoundTrip == pc = "fmt2" => probe = env.n

C14_Witness ==
    /\ pc = "fmt2"
    /\ env.n = <<2, 1, 4, 7, 4, 8, 3, 6, 4, 8>>
    /\ output = <<"2", "1", "4", "7", "_", "4", "8", "3", "6", "4", "8", "L">>
    /\ probe = env.n

\* how many times the character ch is in the text s
Count(s, ch) == Len(SelectSeq(s, LAMBDA c : c = ch))

-----------------------------------------------------------------------------
(* The statistics claim                                                    *)

\* the entry of key k does not raise memory and does not raise steps
NoIncrease(k) ==
    /\ ToNat(all_exunits[k][1]) - ToNat(k[1]) <= 0
    /\ ToNat(all_exunits[k][2]) - ToNat(k[2]) <= 0

\* C16: report_statistics counts an entry as an improvement iff
\* new_mem - old_mem <= 0 and new_steps - old_steps <= 0 and as a
\* regression otherwise, so the two counts add up to the number of
\* entries; the regression section lists exactly the entries counted as
\* regressions; a zero old component gives percentage 0; and the mapping
\* and the size list are left as they were.
C16_Statistics ==
    (pc = "st1" /\ ~probe.none) =>
        /\ probe.decreases = Cardinality({k \in DOMAIN all_exunits : NoIncrease(k)})
        /\ probe.increases = Cardinality({k \in DOMAIN all_exunits : ~NoIncrease(k)})
        /\ probe.decreases + probe.increases = Cardinality(DOMAIN all_exunits)
        /\ probe.total = Cardinality(DOMAIN all_exunits)
        /\ probe.regressions = {k \in DOMAIN all_exunits : ~NoIncrease(k)}
        /\ \A k \in DOMAIN all_exunits :
              /\ k[1] = <<0>> => probe.mem_pcts[k] = <<0, 1>>
              /\ k[2] = <<0>> => probe.steps_pcts[k] = <<0, 1>>
        /\ \A i \in 1..Len(all_sizes) :
              all_sizes[i][1] = <<0>> => probe.sizes[i].pct = <<0, 1>>
        /\ all_exunits = env.map
        /\ all_sizes = env.sizes

\* an unchanged entry, a regression from a zero component and a size that was zero
C16_Witness ==
    /\ pc = "st1"
    /\ DOMAIN all_exunits = StatKeys
    /\ all_exunits[<< <<1>>, <<2>> >>] = << <<1>>, <<2>> >>
    /\ all_exunits[<< <<0>>, <<2>> >>] = << <<1>>, <<2>> >>
    /\ probe.decreases = 2
    /\ probe.increases = 1
    /\ probe.regressions = { << <<0>>, <<2>> >> }
    /\ Len(all_sizes) = 1

-----------------------------------------------------------------------------
(* The accumulation claim                                                  *)

\* s is a prefix of t
IsPrefix(s, t) == Len(s) <= Len(t) /\ \A i \in 1..Len(s) : t[i] = s[i]

\* the mapping and the size list about to be replaced are in the
\* accumulated state: every entry of the one, and the other as its tail
Merged ==
    /\ \A k \in DOMAIN exunits_map :
          k \in DOMAIN all_exunits /\ all_exunits[k] = exunits_map[k]
    /\ Len(size_mismatches) <= Len(all_sizes)
    /\ \A i \in 1..Len(size_mismatches) :
          all_sizes[Len(all_sizes) - Len(size_mismatches) + i] = size_mismatches[i]

\* C17: across every step of main the accumulated mapping keeps its keys,
\* the accumulated size list is only extended and the set of modified
\* paths keeps its elements; and a replacement is applied only to a
\* mapping and a size list that are already merged into the accumulated
\* state.
C17_Accumulates ==
    [][/\ DOMAIN all_exunits \subseteq DOMAIN all_exunits'
       /\ IsPrefix(all_sizes, all_sizes')
       /\ total_updated_files \subseteq total_updated_files'
       /\ pc \in {"replace", "retry_replace"} => Merged]_vars

\* a second replacement round of the primary loop is about to run: two
\* keys, a size mismatch and a modified file are accumulated
C17_Witness ==
    /\ pc = "replace"
    /\ rounds.primary >= 1
    /\ Cardinality(DOMAIN all_exunits) >= 2
    /\ Cardinality(DOMAIN exunits_map) = 1
    /\ total_updated_files # {}

-----------------------------------------------------------------------------
(* The last-observation claim                                              *)

\* the matches of form 1 from line i of the output on: the lines a match
\* spans, its expected pair and its actual pair
RECURSIVE Form1Spans(_)
Form1Spans(i) ==
    LET e == FindExpected(strip_ansi(output), i)
        g == IF e = 0 THEN 0 ELSE FindGot(strip_ansi(output), e + 1)
    IN  IF g = 0 THEN {}
        ELSE {[from |-> e, to |-> g, key |-> Ints(output[e].p), val |-> Ints(output[g].p)]}
                 \cup Form1Spans(g + 1)

\* the matches of form 2
Form2Spans ==
    {[from |-> i, to |-> i, key |-> Ints(output[i].q), val |-> Ints(output[i].p)] :
        i \in {n \in 1..Len(output) : output[n].k = "equal"}}

Matches == Form1Spans(1) \cup Form2Spans

\* C18: when forms 1 and 2 match the same expected pair more than once in
\* one output, the mapping keeps the actual pair of the match that occurs
\* latest in the text, whichever form each match has: the value kept for a
\* key is that of a match after which no match of the key with another
\* value begins.
C18_LastInText ==
    pc = "parsed" =>
        \A k \in DOMAIN exunits_map :
            \E m \in Matches :
                /\ m.key = k
                /\ m.val = exunits_map[k]
                /\ \A n \in Matches : n.key = k /\ n.from > m.to => n.val = m.val

-----------------------------------------------------------------------------
(* The rerun-scope claim                                                   *)

\* C19: in the primary loop and in the retry cycle alike, a run whose
\* output names no failing test leaves the known identifiers as they were,
\* and the rerun after a patch is the full suite only when no failing
\* identifier has been observed so far: not when the primary loop has
\* kept a set, and not when the latest parse has found one.
C19_ScopedRerun ==
    [][/\ pc \in {"rerun", "retry_rerun"} /\ calls'.last = "quick"
            => failing_classes = <<>> /\ new_classes = <<>>
       /\ pc = "retry_rerun" /\ pc' = "retry" /\ new_classes # <<>>
            => new_classes' # <<>>]_vars

-----------------------------------------------------------------------------
(* The no-cascading claim                                                  *)

\* the budgets that the literals among the segments ss state, in order
Stated(ss) ==
    LET lits == SelectSeq(ss, LAMBDA seg : seg.pair # NoPair)
    IN  [i \in 1..Len(lits) |-> lits[i].pair]

\* the budgets old, each looked up once in map
Remapped(map, old) ==
    [i \in 1..Len(old) |-> IF old[i] \in DOMAIN map THEN map[old[i]] ELSE old[i]]

\* C20: one call of replace_exunits looks every literal up once, by the
\* budget it stated before the call: the budgets the literals of a file
\* state after the call are, position by position, the mapping applied
\* once to the budgets they stated before, so with A -> B and B -> C a
\* literal A states B and a literal B states C, and with A -> B and B -> A
\* the two swap.
C20_NoCascade ==
    pc = "rx1" =>
        \A f \in DOMAIN files :
            Literals(files[f]) = Remapped(exunits_map, Stated(env.segs[f]))

\* a chain A -> B, B -> C met a file that states A and then B
C20_Witness ==
    /\ pc = "rx1"
    /\ {PA, PB} \subseteq DOMAIN exunits_map
    /\ exunits_map[PA] = PB
    /\ exunits_map[PB] = PC
    /\ Stated(env.segs[F1]) = <<PA, PB>>
    /\ Literals(before[F1]) = <<PA, PB>>
    /\ Literals(files[F1]) = <<PB, PC>>

====
